---- MODULE Spec2Model ----
(***************************************************************************)
(* The user file store of ComfyUI_frontend: the UserFile class (one file   *)
(* of the user's data directory, with its content cache) and the store's   *)
(* syncFiles, which reconciles the held files with a listing of the        *)
(* remote directory (syncEntitiesV2).                                      *)
(*                                                                         *)
(* JavaScript runs one task at a time: an async method runs without        *)
(* interleaving up to its await of a remote call, and again from the       *)
(* response to its end.  Each method is therefore two actions, the call    *)
(* and the response, with the call in flight in between.                   *)
(*                                                                         *)
(* A UserFile object is named by where it is held: by its key in           *)
(* userFilesByPath when the store holds it, by a handle of TempIds when    *)
(* only a caller holds it.  The path parts getPathDetails derives          *)
(* (directory, filename, suffix) are functions of path and are left out.   *)
(***************************************************************************)
EXTENDS Integers, Sequences, FiniteSets, TLC

\* Bounds of the model.
MaxStamp == 2
MaxPending == 1

\* Program constants.
TemporarySize == -1
DefaultModified == 0
DefaultSize == 0
StatusOk == 200
StatusNoContent == 204
StatusNotFound == 404

null == "null"
Paths == {"a", "d/b"}
DirPaths == {"e", "d/s"}
SyncDirs == {"", "d"}
TempIds == {"t1", "t2"}
Texts == {"x", "y"}
Stamps == 1..MaxStamp
Sizes == {100}

VARIABLES userFilesByPath, userDirs, files, inflight, ev

vars == <<userFilesByPath, userDirs, files, inflight, ev>>

----------------------------------------------------------------------------
\* The UserFile class.

UserFile(path, lastModified, size) ==
    [path |-> path, lastModified |-> lastModified, size |-> size,
     isLoading |-> FALSE, content |-> null, originalContent |-> null]

createTemporary_Persisted(path, now) == UserFile(path, now, 0)

createTemporary(path, now) == UserFile(path, now, TemporarySize)

updatePath_Keep(u, newPath) == u

updatePath(u, newPath) == [u EXCEPT !.path = newPath]

isTemporary(u) == u.size = TemporarySize

isPersisted(u) == ~isTemporary(u)

isLoaded(u) == u.content # null

isModified(u) == u.content # u.originalContent

unload(u) == [u EXCEPT !.content = null, !.originalContent = null, !.isLoading = FALSE]

\* The objects the model tracks, and access to one by its name.
Refs == DOMAIN userFilesByPath \cup DOMAIN files

File(r) == IF r \in DOMAIN userFilesByPath THEN userFilesByPath[r] ELSE files[r]

Put(r, u) ==
    /\ userFilesByPath' = IF r \in DOMAIN userFilesByPath
                          THEN [userFilesByPath EXCEPT ![r] = u] ELSE userFilesByPath
    /\ files' = IF r \in DOMAIN files THEN [files EXCEPT ![r] = u] ELSE files

\* The file a caller creates and works on; the other handle names the file
\* a saveAs of it creates.
Subject == "t1"

\* The files whose methods the model calls: the caller's file and the file
\* the store holds under the key "a".
Followed == {Subject, "a"}

FreeIds == TempIds \ DOMAIN files

\* The handle of the file a saveAs creates.
NewId == CHOOSE t \in FreeIds \ {Subject} : TRUE

\* The call in flight at position i has been answered.
Without(i) == SubSeq(inflight, 1, i - 1) \o SubSeq(inflight, i + 1, Len(inflight))

Flying(ops) == {i \in DOMAIN inflight : inflight[i].op \in ops}

CanCall == Cardinality(Flying({"load", "save", "delete", "rename", "rename.json"})) < MaxPending

\* The model follows one syncFiles at a time.
CanSync == Flying({"sync"}) = {}

NoCall == [api |-> "none"]

\* The last step: the method, the file it was called on and its argument, the
\* file it returned (and, when the model does not hold that file, the file's
\* fields), the remote call it issued.
Event(op, r, ret, call) ==
    [op |-> op, file |-> r, arg |-> null, ret |-> ret, call |-> call, got |-> null,
     entries |-> {}, before |-> null]

Called(op, r, arg, ret, call) == [Event(op, r, ret, call) EXCEPT !.arg = arg]

Forced(force) == IF force THEN "force" ELSE "plain"

\* An event is recorded for one step: the next step of the program is taken
\* from the state with the record cleared.
Idle == Event("idle", null, null, NoCall)

Ready == ev = Idle

Forget ==
    /\ ~Ready
    /\ ev' = Idle
    /\ UNCHANGED <<userFilesByPath, userDirs, files, inflight>>

Drop(f, r) == [x \in DOMAIN f \ {r} |-> f[x]]

Init ==
    /\ userFilesByPath = <<>>
    /\ userDirs = {}
    /\ files = <<>>
    /\ inflight = <<>>
    /\ ev = Idle

----------------------------------------------------------------------------
\* Callers: UserFile.createTemporary(path) and a write of the content field.

CreateTemporary(path, now) ==
    /\ Ready
    /\ Subject \in FreeIds
    /\ files' = files @@ (Subject :> createTemporary(path, now))
    /\ ev' = Event("createTemporary", Subject, Subject, NoCall)
    /\ UNCHANGED <<userFilesByPath, userDirs, inflight>>

SetContent(r, text) ==
    /\ Ready
    /\ File(r).content # text
    /\ Put(r, [File(r) EXCEPT !.content = text])
    /\ ev' = Called("setContent", r, text, null, NoCall)
    /\ UNCHANGED <<userDirs, inflight>>

----------------------------------------------------------------------------
\* load and unload.

LoadSkips_Unforced(u, force) == ~force /\ (isTemporary(u) \/ isLoaded(u))

LoadSkips(u, force) == isTemporary(u) \/ (~force /\ isLoaded(u))

GetCall(u) == [api |-> "getUserData", path |-> u.path]

LoadStarted(u) == [u EXCEPT !.isLoading = TRUE]

LoadDone_ContentOnly(u, text) == [u EXCEPT !.content = text, !.isLoading = FALSE]

LoadDone(u, text) == [u EXCEPT !.content = text, !.originalContent = text, !.isLoading = FALSE]

LoadFailed_Reset(u) == [u EXCEPT !.isLoading = FALSE]

\* The throw on a status other than 200 assigns nothing.
LoadFailed(u) == u

Load(r, force) ==
    /\ Ready
    /\ IF LoadSkips(File(r), force)
       THEN /\ ev' = Called("load.skip", r, Forced(force), r, NoCall)
            /\ UNCHANGED <<userFilesByPath, userDirs, files, inflight>>
       ELSE /\ CanCall
            /\ Put(r, LoadStarted(File(r)))
            /\ inflight' = Append(inflight, [op |-> "load", file |-> r])
            /\ ev' = Called("load", r, Forced(force), null, GetCall(File(r)))
            /\ UNCHANGED userDirs

LoadResponse(i, status, text) ==
    /\ Ready
    /\ inflight[i].op = "load"
    /\ inflight' = Without(i)
    /\ LET r == inflight[i].file IN
       IF status # StatusOk
       THEN /\ Put(r, LoadFailed(File(r)))
            /\ ev' = Event("load.throw", r, null, NoCall)
       ELSE /\ Put(r, LoadDone(File(r), text))
            /\ ev' = Called("load.return", r, text, r, NoCall)
    /\ UNCHANGED userDirs

Unload(r) ==
    /\ Ready
    /\ Put(r, unload(File(r)))
    /\ ev' = Event("unload", r, null, NoCall)
    /\ UNCHANGED <<userDirs, inflight>>

----------------------------------------------------------------------------
\* save and saveAs.  storeUserData is called with throwOnError, so a failed
\* store rejects the save at the await; a successful one answers with the
\* file's name (older backends) or with its full info.

SaveSkips_Loaded(u, force) ==
    isPersisted(u) /\ isLoaded(u) /\ ~isModified(u) /\ ~force

SaveSkips(u, force) == isPersisted(u) /\ ~isModified(u) /\ ~force

StoreCall_Overwrite(u) ==
    [api |-> "storeUserData", path |-> u.path, content |-> u.content,
     overwrite |-> TRUE]

StoreCall(u) ==
    [api |-> "storeUserData", path |-> u.path, content |-> u.content,
     overwrite |-> isPersisted(u)]

Bodies ==
    {[kind |-> "string"]} \cup
    {[kind |-> "object", modified |-> m, size |-> z] : m \in Stamps, z \in Sizes}

WithInfo(u, body) ==
    IF body.kind = "object"
    THEN [u EXCEPT !.lastModified = body.modified, !.size = body.size]
    ELSE u

SaveDone(u, body) == [WithInfo(u, body) EXCEPT !.originalContent = u.content]

Save(r, force) ==
    /\ Ready
    /\ IF SaveSkips(File(r), force)
       THEN /\ ev' = Called("save.skip", r, Forced(force), r, NoCall)
            /\ UNCHANGED <<userFilesByPath, userDirs, files, inflight>>
       ELSE /\ CanCall
            /\ inflight' = Append(inflight,
                   [op |-> "save", file |-> r, via |-> "save", from |-> r,
                    sent |-> File(r).content])
            /\ ev' = Called("save", r, Forced(force), null, StoreCall(File(r)))
            /\ UNCHANGED <<userFilesByPath, userDirs, files>>

\* A syncFiles in flight notes the stored files whose save has returned since
\* its listing was asked for.
Noted(calls, r) ==
    [j \in DOMAIN calls |->
        IF calls[j].op = "sync" /\ r \in DOMAIN userFilesByPath
        THEN [calls[j] EXCEPT !.since = @ \cup {r}]
        ELSE calls[j]]

\* A file that saveAs created is handed to the caller of saveAs when its save
\* returns, and to nobody when its save throws; the model follows it no further.
SaveResponse(i, ok, body) ==
    /\ Ready
    /\ inflight[i].op = "save"
    /\ inflight' = IF ok THEN Noted(Without(i), inflight[i].file) ELSE Without(i)
    /\ LET r == inflight[i].file
           via == inflight[i].via
           from == inflight[i].from
       IN IF ~ok
          THEN /\ ev' = Event(via \o ".throw", from, null, NoCall)
               /\ files' = IF r = from THEN files ELSE Drop(files, r)
               /\ UNCHANGED userFilesByPath
          ELSE IF r = from
               THEN /\ Put(r, SaveDone(File(r), body))
                    /\ ev' = Event(via \o ".return", from, r, NoCall)
               ELSE /\ files' = Drop(files, r)
                    /\ ev' = [Event(via \o ".return", from, r, NoCall)
                                 EXCEPT !.got = SaveDone(File(r), body)]
                    /\ UNCHANGED userFilesByPath
    /\ UNCHANGED userDirs

\* saveAs: tempFile is this file when it is temporary, a new temporary file
\* at newPath otherwise; it gets this file's content and is saved.  The
\* save of a file that is persisted, unmodified and not forced would return
\* at once; tempFile is temporary, so its save always stores.
SaveAsTarget(r, newPath, now) ==
    IF isTemporary(File(r)) THEN File(r) ELSE createTemporary(newPath, now)

SaveAsNeedsNew(r) == ~isTemporary(File(r))

SaveAs(r, newPath, now) ==
    /\ Ready
    /\ LET t == IF SaveAsNeedsNew(r) THEN NewId ELSE r
           tempFile == [SaveAsTarget(r, newPath, now) EXCEPT !.content = File(r).content]
       IN /\ SaveAsNeedsNew(r) => FreeIds \ {Subject} # {}
          /\ IF SaveAsNeedsNew(r)
             THEN /\ files' = files @@ (t :> tempFile)
                  /\ UNCHANGED userFilesByPath
             ELSE Put(r, tempFile)
          /\ IF SaveSkips(tempFile, FALSE)
             THEN /\ ev' = [Called("saveAs.skip", r, newPath, t, NoCall) EXCEPT !.got = tempFile]
                  /\ UNCHANGED inflight
             ELSE /\ CanCall
                  /\ inflight' = Append(inflight,
                         [op |-> "save", file |-> t, via |-> "saveAs", from |-> r,
                          sent |-> tempFile.content])
                  /\ ev' = Called("saveAs", r, newPath, null, StoreCall(tempFile))
          /\ UNCHANGED userDirs

----------------------------------------------------------------------------
\* delete and rename.

DeleteCall(u) == [api |-> "deleteUserData", path |-> u.path]

Delete(r) ==
    /\ Ready
    /\ IF isTemporary(File(r))
       THEN /\ ev' = Event("delete.skip", r, null, NoCall)
            /\ UNCHANGED <<userFilesByPath, userDirs, files, inflight>>
       ELSE /\ CanCall
            /\ inflight' = Append(inflight, [op |-> "delete", file |-> r])
            /\ ev' = Event("delete", r, null, DeleteCall(File(r)))
            /\ UNCHANGED <<userFilesByPath, userDirs, files>>

DeleteFails_Never(status) == FALSE

DeleteFails(status) == status # StatusNoContent

DeleteResponse(i, status) ==
    /\ Ready
    /\ inflight[i].op = "delete"
    /\ inflight' = Without(i)
    /\ ev' = Called(IF DeleteFails(status) THEN "delete.throw" ELSE "delete.return",
                    inflight[i].file, ToString(status), null, NoCall)
    /\ UNCHANGED <<userFilesByPath, userDirs, files>>

MoveCall(u, newPath) == [api |-> "moveUserData", path |-> u.path, dest |-> newPath]

Rename(r, newPath) ==
    /\ Ready
    /\ IF isTemporary(File(r))
       THEN /\ Put(r, updatePath(File(r), newPath))
            /\ ev' = Called("rename.local", r, newPath, r, NoCall)
            /\ UNCHANGED <<userDirs, inflight>>
       ELSE /\ CanCall
            /\ inflight' = Append(inflight, [op |-> "rename", file |-> r, newPath |-> newPath])
            /\ ev' = Called("rename", r, newPath, null, MoveCall(File(r), newPath))
            /\ UNCHANGED <<userFilesByPath, userDirs, files>>

\* The path is updated when the response arrives, the metadata after the
\* await of the response's body.
RenameResponse(i, status) ==
    /\ Ready
    /\ inflight[i].op = "rename"
    /\ LET r == inflight[i].file IN
       IF status # StatusOk
       THEN /\ inflight' = Without(i)
            /\ ev' = Event("rename.throw", r, null, NoCall)
            /\ UNCHANGED <<userFilesByPath, files>>
       ELSE /\ Put(r, updatePath(File(r), inflight[i].newPath))
            /\ inflight' = [inflight EXCEPT ![i] = [op |-> "rename.json", file |-> r]]
            /\ ev' = Event("rename.moved", r, null, NoCall)
    /\ UNCHANGED userDirs

RenameBody(i, body) ==
    /\ Ready
    /\ inflight[i].op = "rename.json"
    /\ inflight' = Without(i)
    /\ Put(inflight[i].file, WithInfo(File(inflight[i].file), body))
    /\ ev' = Event("rename.return", inflight[i].file, inflight[i].file, NoCall)
    /\ UNCHANGED userDirs

----------------------------------------------------------------------------
\* The life of files that callers hold.

Next ==
    \/ \E p \in Paths, now \in Stamps : CreateTemporary(p, now)
    \/ \E r \in Refs \cap Followed, text \in Texts : SetContent(r, text)
    \/ \E r \in Refs \cap Followed, force \in BOOLEAN : Load(r, force)
    \/ \E i \in DOMAIN inflight, status \in {StatusOk, StatusNotFound}, text \in Texts :
          LoadResponse(i, status, text)
    \/ \E r \in Refs \cap Followed : Unload(r)
    \/ \E r \in Refs \cap Followed, force \in BOOLEAN : Save(r, force)
    \/ \E i \in DOMAIN inflight, ok \in BOOLEAN, body \in Bodies : SaveResponse(i, ok, body)
    \/ \E r \in Refs \cap Followed, p \in Paths, now \in Stamps : SaveAs(r, p, now)
    \/ \E r \in Refs \cap Followed : Delete(r)
    \/ \E i \in DOMAIN inflight, status \in {StatusNoContent, StatusNotFound} :
          DeleteResponse(i, status)
    \/ \E r \in Refs \cap Followed, p \in Paths : Rename(r, p)
    \/ \E i \in DOMAIN inflight, status \in {StatusOk, StatusNotFound} : RenameResponse(i, status)
    \/ \E i \in DOMAIN inflight, body \in Bodies : RenameBody(i, body)
    \/ Forget

Spec == Init /\ [][Next]_vars

----------------------------------------------------------------------------
\* The store: syncFiles and syncEntitiesV2.

\* entry.field ?? default
Coalesce(entry, field, default) ==
    IF field \in DOMAIN entry THEN entry[field] ELSE default

createEntity(entry) ==
    UserFile(entry.path, Coalesce(entry, "modified", DefaultModified),
             Coalesce(entry, "size", DefaultSize))

updateEntity_IfChanged(existingFile, entry) ==
    LET modified == Coalesce(entry, "modified", existingFile.lastModified)
        size == Coalesce(entry, "size", existingFile.size)
    IN IF modified = existingFile.lastModified /\ size = existingFile.size
       THEN existingFile
       ELSE unload([existingFile EXCEPT !.lastModified = modified, !.size = size])

updateEntity_KeepNewer(existingFile, entry) ==
    IF "modified" \in DOMAIN entry /\ entry.modified < existingFile.lastModified
    THEN existingFile
    ELSE unload([existingFile EXCEPT
                   !.lastModified = Coalesce(entry, "modified", existingFile.lastModified),
                   !.size = Coalesce(entry, "size", existingFile.size)])

updateEntity(existingFile, entry) ==
    unload([existingFile EXCEPT
              !.lastModified = Coalesce(entry, "modified", existingFile.lastModified),
              !.size = Coalesce(entry, "size", existingFile.size)])

exclude_Modified(file) == isModified(file)

exclude(file) == FALSE

DirsListed_Merged(entries) ==
    userDirs \cup {e.path : e \in {x \in entries : x.type = "directory"}}

DirsListed(entries) == {e.path : e \in {x \in entries : x.type = "directory"}}

DirSetAfter_ClearedFirst(dirSet, ok, entries) ==
    IF ok THEN {e.path : e \in {x \in entries : x.type = "directory"}} ELSE {}

\* dirSet is cleared and refilled after the await of the listing, so not at
\* all when the listing fails.
DirSetAfter(dirSet, ok, entries) == IF ok THEN DirsListed(entries) ELSE dirSet

\* The exclusion predicates the reconcile routines are called with, by name:
\* the one syncFiles passes, and predicates on the state of a file.
Predicates == {"none", "modified", "loaded", "all"}

Excluded(x, file) ==
    CASE x = "none" -> exclude(file)
      [] x = "modified" -> isModified(file)
      [] x = "loaded" -> isLoaded(file)
      [] x = "all" -> TRUE

FilesListed(entries) == {e \in entries : e.type = "file"}

EntryAt(listed, key) == CHOOSE e \in listed : e.path = key

\* The first loop: a listed file the map does not hold is created, one it holds
\* and that is not excluded is updated.
AddOrUpdate(entityByPath, listed, x) ==
    [key \in DOMAIN entityByPath \cup {e.path : e \in listed} |->
        IF key \notin DOMAIN entityByPath THEN createEntity(EntryAt(listed, key))
        ELSE IF (\E e \in listed : e.path = key) /\ ~Excluded(x, entityByPath[key])
             THEN updateEntity(entityByPath[key], EntryAt(listed, key))
             ELSE entityByPath[key]]

RemoveMissing_Unlisted(entityByPath, listed, x) ==
    [key \in {k \in DOMAIN entityByPath : \E e \in listed : e.path = k} |->
        entityByPath[key]]

\* The second loop: a held file that is not excluded and not listed is deleted.
RemoveMissing(entityByPath, listed, x) ==
    [key \in {k \in DOMAIN entityByPath :
                 Excluded(x, entityByPath[k]) \/ (\E e \in listed : e.path = k)} |->
        entityByPath[key]]

syncEntitiesV2(entityByPath, entries, x) ==
    RemoveMissing(AddOrUpdate(entityByPath, FilesListed(entries), x), FilesListed(entries), x)

\* What listUserDataV2(dir) can answer: entries of files and directories
\* under dir, no path twice; a file's entry may lack modified and size.
Folder == [p \in Paths \cup DirPaths |-> IF p \in {"d/b", "d/s"} THEN "d" ELSE ""]

Within(dir) == {p \in Paths \cup DirPaths : dir = "" \/ Folder[p] = dir}

EntriesOf(p) ==
    IF p \in DirPaths THEN {[path |-> p, type |-> "directory"]}
    ELSE {[path |-> p, type |-> "file"]}
         \cup {[path |-> p, type |-> "file", modified |-> m] : m \in Stamps}
         \cup {[path |-> p, type |-> "file", size |-> z] : z \in Sizes}
         \cup {[path |-> p, type |-> "file", modified |-> m, size |-> z] :
                  m \in Stamps, z \in Sizes}

RECURSIVE Choices(_)
Choices(ps) ==
    IF ps = {} THEN {{}}
    ELSE LET p == CHOOSE q \in ps : TRUE
         IN {rest \cup one : rest \in Choices(ps \ {p}),
                             one \in {{}} \cup {{e} : e \in EntriesOf(p)}}

AllListings == Choices(Paths \cup DirPaths)

Listings == [dir \in SyncDirs |-> {es \in AllListings : \A e \in es : e.path \in Within(dir)}]

ListCall(dir) == [api |-> "listUserDataV2", path |-> dir]

SyncFiles(dir) ==
    /\ Ready
    /\ CanSync
    /\ inflight' = Append(inflight, [op |-> "sync", dir |-> dir, file |-> null, since |-> {}])
    /\ ev' = Called("syncFiles", null, dir, null, ListCall(dir))
    /\ UNCHANGED <<userFilesByPath, userDirs, files>>

ListError(i) ==
    /\ Ready
    /\ inflight[i].op = "sync"
    /\ inflight' = Without(i)
    /\ userDirs' = DirSetAfter(userDirs, FALSE, {})
    /\ ev' = Event("syncFiles.throw", null, null, NoCall)
    /\ UNCHANGED <<userFilesByPath, files>>

\* The calls in flight on a file the store no longer holds are followed no further.
StillHeld(calls, held) ==
    SelectSeq(calls, LAMBDA c : c.op = "sync" \/ c.file \notin Paths \/ c.file \in held)

\* What the store held when the listing arrived, as far as the events tell:
\* the directory asked for, the keys and directories held, the keys of the
\* files saved since the listing was asked for, of the loaded files, of the
\* files the listing reports with an older time of modification, of the
\* files with unsaved changes and of those the listing reports unchanged.
Summary(dir, entries) ==
    [dir |-> dir, keys |-> DOMAIN userFilesByPath, dirs |-> userDirs,
     saved |-> UNION {inflight[i].since : i \in Flying({"sync"})},
     loaded |-> {k \in DOMAIN userFilesByPath : isLoaded(userFilesByPath[k])},
     stale |-> {e.path : e \in {x \in FilesListed(entries) :
                  /\ x.path \in DOMAIN userFilesByPath
                  /\ "modified" \in DOMAIN x
                  /\ x.modified < userFilesByPath[x.path].lastModified}},
     modified |-> {k \in DOMAIN userFilesByPath : isModified(userFilesByPath[k])},
     same |-> {e.path : e \in {x \in FilesListed(entries) :
                  /\ x.path \in DOMAIN userFilesByPath
                  /\ DOMAIN x = {"path", "type", "modified", "size"}
                  /\ x.modified = userFilesByPath[x.path].lastModified
                  /\ x.size = userFilesByPath[x.path].size}}]

ListResponse(i, entries) ==
    /\ Ready
    /\ inflight[i].op = "sync"
    /\ \A e \in entries : e.path \in Within(inflight[i].dir)
    /\ userDirs' = DirSetAfter(userDirs, TRUE, entries)
    /\ userFilesByPath' = syncEntitiesV2(userFilesByPath, entries, "none")
    /\ inflight' = StillHeld(Without(i), DOMAIN userFilesByPath')
    /\ ev' = [Event("syncFiles.return", null, null, NoCall) EXCEPT
                 !.entries = entries,
                 !.before = Summary(inflight[i].dir, entries)]
    /\ UNCHANGED files

SyncNext ==
    \/ \E dir \in SyncDirs : SyncFiles(dir)
    \/ \E i \in Flying({"sync"}) : ListError(i)
    \/ \E i \in Flying({"sync"}) : \E entries \in Listings[inflight[i].dir] :
          ListResponse(i, entries)
    \/ \E r \in Refs \cap Followed, text \in {"x"} : SetContent(r, text)
    \/ \E r \in Refs \cap Followed, force \in BOOLEAN : Load(r, force)
    \/ \E i \in DOMAIN inflight, status \in {StatusOk, StatusNotFound}, text \in {"x"} :
          LoadResponse(i, status, text)
    \/ Forget

SyncSpec == Init /\ [][SyncNext]_vars

----------------------------------------------------------------------------
\* The two reconcile routines as functions of the map, the listing and the
\* exclusion predicate, with the callbacks of syncFiles: syncEntities over the
\* flat listing of a directory, whose paths are relative to it, and
\* syncEntitiesV2 over a typed listing.

\* path: dir ? `${dir}/${file.path}` : file.path
Qualify_Relative(dir, file) == file

Qualify(dir, file) ==
    [file EXCEPT !.path = IF dir = "" THEN file.path ELSE dir \o "/" \o file.path]

\* The first loop of syncEntities: create, skip an excluded entity, update.
FlatAddOrUpdate(entityByPath, listed, x) ==
    [key \in DOMAIN entityByPath \cup {f.path : f \in listed} |->
        IF key \notin {f.path : f \in listed} THEN entityByPath[key]
        ELSE IF key \notin DOMAIN entityByPath THEN createEntity(EntryAt(listed, key))
        ELSE IF Excluded(x, entityByPath[key]) THEN entityByPath[key]
        ELSE updateEntity(entityByPath[key], EntryAt(listed, key))]

\* The second loop of syncEntities.
FlatRemoveMissing(entityByPath, listed, x) ==
    [key \in {k \in DOMAIN entityByPath :
                 IF Excluded(x, entityByPath[k]) THEN TRUE ELSE \E f \in listed : f.path = k} |->
        entityByPath[key]]

syncEntities(dir, entityByPath, flat, x) ==
    LET listed == {Qualify(dir, f) : f \in flat}
    IN FlatRemoveMissing(FlatAddOrUpdate(entityByPath, listed, x), listed, x)

\* What listUserDataFullInfo(dir) can answer: files under dir by their path
\* relative to dir, with or without their metadata.
Relative(dir) == IF dir = "" THEN Paths ELSE {"b"}

FlatEntriesOf(p) ==
    {[path |-> p]} \cup {[path |-> p, size |-> z] : z \in Sizes}
    \cup {[path |-> p, modified |-> m, size |-> z] : m \in Stamps, z \in Sizes}

RECURSIVE FlatChoices(_)
FlatChoices(ps) ==
    IF ps = {} THEN {{}}
    ELSE LET p == CHOOSE q \in ps : TRUE
         IN {rest \cup one : rest \in FlatChoices(ps \ {p}),
                             one \in {{}} \cup {{f} : f \in FlatEntriesOf(p)}}

FlatListings == [dir \in SyncDirs |-> FlatChoices(Relative(dir))]

\* The typed listing of the same files: paths qualified, every entry a file.
Typed(dir, flat) ==
    {[x \in DOMAIN f \cup {"type"} |->
         IF x = "type" THEN "file" ELSE Qualify(dir, f)[x]] : f \in flat}

\* The maps the routines start from: files as syncFiles creates them, some
\* of them loaded since, some of those edited.
Entities(p) ==
    {[UserFile(p, m, z) EXCEPT !.content = c[1], !.originalContent = c[2]] :
        m \in Stamps, z \in Sizes, c \in {<<null, null>>, <<"x", "x">>, <<"y", "x">>}}

Collections ==
    UNION {[keys -> UNION {Entities(p) : p \in keys}] : keys \in SUBSET Paths}

ReconcileInit ==
    /\ userFilesByPath \in {m \in Collections : \A k \in DOMAIN m : m[k].path = k}
    /\ userDirs = {}
    /\ files = <<>>
    /\ inflight = <<>>
    /\ ev = Idle

Reconciled(op, dir, listing, x) ==
    [Called(op, null, dir, null, NoCall) EXCEPT
        !.entries = listing,
        !.before = [collection |-> userFilesByPath, exclude |-> x]]

SyncEntities(dir, flat, x) ==
    /\ Ready
    /\ userFilesByPath' = syncEntities(dir, userFilesByPath, flat, x)
    /\ ev' = Reconciled("syncEntities", dir, flat, x)
    /\ UNCHANGED <<userDirs, files, inflight>>

SyncEntitiesV2(dir, entries, x) ==
    /\ Ready
    /\ userFilesByPath' = syncEntitiesV2(userFilesByPath, entries, x)
    /\ ev' = Reconciled("syncEntitiesV2", dir, entries, x)
    /\ UNCHANGED <<userDirs, files, inflight>>

ReconcileNext ==
    \/ \E dir \in SyncDirs, x \in Predicates : \E flat \in FlatListings[dir] :
          SyncEntities(dir, flat, x)
    \/ \E dir \in SyncDirs, x \in Predicates : \E flat \in FlatListings[dir] :
          \E more \in SUBSET {[path |-> "e", type |-> "directory"]} :
             SyncEntitiesV2(dir, Typed(dir, flat) \cup more, x)
    \/ Forget

ReconcileSpec == ReconcileInit /\ [][ReconcileNext]_vars

----------------------------------------------------------------------------
\* The store with the methods of the files it holds: syncFiles('') answered
\* with full entries of files, and the methods that act on a file itself
\* (saveAs of a stored file acts on a new file) called on the file the store
\* holds under the key "a"; a caller also holds a temporary file, which it
\* deletes.

FullEntries(p) ==
    {[path |-> p, type |-> "file", modified |-> m, size |-> z] : m \in Stamps, z \in Sizes}

StoreListings == {es \in Listings[""] : \A e \in es : e \in FullEntries(e.path)}

Stored == DOMAIN userFilesByPath \cap Followed

StoreNext ==
    \/ \E p \in {"a"}, now \in {1} : CreateTemporary(p, now)
    \/ SyncFiles("")
    \/ \E i \in Flying({"sync"}) : ListError(i)
    \/ \E i \in Flying({"sync"}) : \E entries \in StoreListings : ListResponse(i, entries)
    \/ \E r \in Stored, text \in {"x"} : SetContent(r, text)
    \/ \E r \in Stored, force \in BOOLEAN : Load(r, force)
    \/ \E i \in DOMAIN inflight, status \in {StatusOk, StatusNotFound}, text \in {"x"} :
          LoadResponse(i, status, text)
    \/ \E r \in Stored : Unload(r)
    \/ \E r \in Stored, force \in BOOLEAN : Save(r, force)
    \/ \E i \in DOMAIN inflight, ok \in BOOLEAN, body \in Bodies : SaveResponse(i, ok, body)
    \/ \E r \in Refs \cap Followed : Delete(r)
    \/ \E i \in DOMAIN inflight, status \in {StatusNoContent, StatusNotFound} :
          DeleteResponse(i, status)
    \/ \E r \in Stored, p \in Paths : Rename(r, p)
    \/ \E i \in DOMAIN inflight, status \in {StatusOk, StatusNotFound} : RenameResponse(i, status)
    \/ \E i \in DOMAIN inflight, body \in Bodies : RenameBody(i, body)
    \/ Forget

StoreSpec == Init /\ [][StoreNext]_vars

----------------------------------------------------------------------------
\* Properties of syncFiles, under SyncSpec.

Sync == ev.op = "syncFiles.return"

ListedPaths(entries, type) == {e.path : e \in {x \in entries : x.type = type}}

ListedAt(entries, key) == CHOOSE e \in entries : e.path = key /\ e.type = "file"

\* C1: when syncFiles has returned, the keys of userFilesByPath are exactly
\* the paths of the file entries of the listing it received: missing files
\* added, every other held file removed, whatever directory was asked for.
C1_KeysAreListedFiles ==
    Sync => DOMAIN userFilesByPath = ListedPaths(ev.entries, "file")

\* A sync of directory d has added d/b and removed a, a file outside d.
C1_Witness ==
    /\ Sync
    /\ ev.before.dir = "d"
    /\ "a" \in ev.before.keys /\ "a" \notin DOMAIN userFilesByPath
    /\ "d/b" \notin ev.before.keys /\ "d/b" \in DOMAIN userFilesByPath

\* C2 as stated: every file held at a listed path has its lastModified and
\* size set from the entry and is unloaded.
C2_SetFromEntry ==
    Sync => \A key \in ListedPaths(ev.entries, "file") \cap ev.before.keys :
               LET e == ListedAt(ev.entries, key)
                   u == userFilesByPath[key]
               IN /\ "modified" \in DOMAIN e /\ u.lastModified = e.modified
                  /\ "size" \in DOMAIN e /\ u.size = e.size
                  /\ u.content = null /\ u.originalContent = null /\ ~u.isLoading

\* C2 amended: every file held at a listed path is unloaded, and has each of
\* lastModified and size set from the entry when the entry carries the field
\* and left as it was when the entry lacks it.
C2_SetFromEntryWhereCarried ==
    [][ev'.op = "syncFiles.return" =>
         \A key \in ListedPaths(ev'.entries, "file") \cap DOMAIN userFilesByPath :
            LET e == ListedAt(ev'.entries, key)
                old == userFilesByPath[key]
                new == userFilesByPath'[key]
            IN /\ key \in DOMAIN userFilesByPath'
               /\ new.lastModified =
                     IF "modified" \in DOMAIN e THEN e.modified ELSE old.lastModified
               /\ new.size = IF "size" \in DOMAIN e THEN e.size ELSE old.size
               /\ new.path = old.path
               /\ new.content = null /\ new.originalContent = null /\ ~new.isLoading]_vars

\* The file at a had unsaved changes and a load in flight, and the listing
\* reported the modified and size it already had: it is unloaded all the same.
C2_Witness ==
    /\ Sync
    /\ "a" \in ev.before.modified \cap ev.before.same
    /\ \E i \in DOMAIN inflight : inflight[i].op = "load" /\ inflight[i].file = "a"
    /\ userFilesByPath["a"].content = null /\ ~userFilesByPath["a"].isLoading

\* C3: when syncFiles has returned, userDirs is exactly the set of paths of
\* the directory entries of the listing it received.
C3_DirsAreListedDirs ==
    Sync => userDirs = ListedPaths(ev.entries, "directory")

\* A sync of directory d has dropped e, a directory outside d, and kept d/s.
C3_Witness ==
    /\ Sync
    /\ ev.before.dir = "d"
    /\ ev.before.dirs = {"e", "d/s"}
    /\ userDirs = {"d/s"}

\* C4: a syncFiles whose listing call fails throws and changes neither
\* userFilesByPath nor userDirs.
C4_FailedSyncChangesNothing ==
    [][ev'.op = "syncFiles.throw" =>
         /\ userFilesByPath' = userFilesByPath
         /\ userDirs' = userDirs
         /\ ev'.ret = null]_vars

\* A sync has failed with files and directories held.
C4_Witness ==
    /\ ev.op = "syncFiles.throw"
    /\ DOMAIN userFilesByPath = Paths
    /\ userDirs = DirPaths

----------------------------------------------------------------------------
\* Properties of the methods of UserFile, under Spec.

FileAfter(r) == IF r \in DOMAIN userFilesByPath' THEN userFilesByPath'[r] ELSE files'[r]

StoreUnchanged == UNCHANGED <<userFilesByPath, userDirs, files, inflight>>

\* C5: save() on a file that is modified or temporary issues one
\* storeUserData call, with overwrite = isPersisted at the call; its response
\* issues no further call, and when the save returns the file is unmodified.
C5_SaveStoresOnce ==
    [][/\ (/\ ev'.op \in {"save", "save.skip"}
           /\ isModified(File(ev'.file)) \/ isTemporary(File(ev'.file)))
          => /\ ev'.op = "save"
             /\ ev'.call = [api |-> "storeUserData", path |-> File(ev'.file).path,
                            content |-> File(ev'.file).content,
                            overwrite |-> File(ev'.file).size # -1]
             /\ Len(inflight') = Len(inflight) + 1
       /\ ev'.op \in {"save.return", "save.throw"}
          => ev'.call = NoCall /\ Len(inflight') = Len(inflight) - 1
       /\ ev'.op = "save.return"
          => FileAfter(ev'.ret).originalContent = FileAfter(ev'.ret).content]_vars

\* save() has just sent the changed content of a persisted file.
C5_Witness ==
    /\ ev.op = "save"
    /\ File(ev.file).size # -1
    /\ File(ev.file).content \notin {null, File(ev.file).originalContent}
    /\ ev.call.overwrite

\* C6: save() without force on a file that is persisted and unmodified
\* issues no call, returns the file and changes nothing.
C6_SaveSkipsUnmodified ==
    [][(/\ ev'.op \in {"save", "save.skip"}
        /\ ev'.arg = "plain"
        /\ File(ev'.file).size # -1
        /\ File(ev'.file).content = File(ev'.file).originalContent)
       => /\ ev'.op = "save.skip"
          /\ ev'.call = NoCall
          /\ ev'.ret = ev'.file
          /\ StoreUnchanged]_vars

\* save() has returned at once on a persisted file that was never loaded.
C6_Witness ==
    /\ ev.op = "save.skip"
    /\ File(ev.file).size # -1
    /\ File(ev.file).content = null /\ File(ev.file).originalContent = null

\* C7: saveAs(newPath) on a persisted file stores this file's content at
\* newPath with overwrite = FALSE, saves and returns another file, and leaves
\* this file as it was, at the call and at the response.
C7_SaveAsPersisted ==
    [][/\ (ev'.op \in {"saveAs", "saveAs.skip"} /\ File(ev'.file).size # -1)
          => /\ ev'.op = "saveAs"
             /\ ev'.call = [api |-> "storeUserData", path |-> ev'.arg,
                            content |-> File(ev'.file).content, overwrite |-> FALSE]
             /\ FileAfter(ev'.file) = File(ev'.file)
             /\ inflight'[Len(inflight')].op = "save"
             /\ inflight'[Len(inflight')].from = ev'.file
             /\ inflight'[Len(inflight')].file # ev'.file
       /\ ev'.op = "saveAs.return"
          => /\ \E i \in DOMAIN inflight :
                  /\ inflight[i].op = "save" /\ inflight[i].via = "saveAs"
                  /\ inflight[i].from = ev'.file /\ inflight[i].file = ev'.ret
             /\ ev'.ret # ev'.file => FileAfter(ev'.file) = File(ev'.file)]_vars

\* saveAs has returned a new file at another path with the content of the
\* persisted, loaded file it was called on.
C7_Witness ==
    /\ ev.op = "saveAs.return"
    /\ ev.ret # ev.file
    /\ File(ev.file).size # -1
    /\ File(ev.file).content # null
    /\ ev.got.content = File(ev.file).content
    /\ ev.got.path # File(ev.file).path

\* C8: saveAs(newPath) on a temporary file stores at newPath, and the file
\* it saves, the file itself, is then at newPath.
C8_SaveAsTemporaryAtNewPath ==
    (ev.op = "saveAs" /\ File(ev.file).size = -1)
       => ev.call.path = ev.arg /\ File(ev.file).path = ev.arg

\* C9: a temporary file stays temporary through every step except the return
\* of its save, and is persisted when its save has returned.
C9_TemporaryUntilSaved ==
    [][\A r \in DOMAIN files :
          files[r].size = -1 =>
             IF ev'.op \in {"save.return", "saveAs.return"} /\ ev'.ret = r
             THEN IF r \in DOMAIN files' THEN files'[r].size # -1 ELSE ev'.got.size # -1
             ELSE r \in DOMAIN files' => files'[r].size = -1]_vars

\* C10: load() on a temporary file, forced or not, and load() without force
\* on a loaded file issue no call, return the file and change nothing.
C10_LoadSkips ==
    [][(/\ ev'.op \in {"load", "load.skip"}
        /\ \/ File(ev'.file).size = -1
           \/ ev'.arg = "plain" /\ File(ev'.file).content # null)
       => /\ ev'.op = "load.skip"
          /\ ev'.call = NoCall
          /\ ev'.ret = ev'.file
          /\ StoreUnchanged]_vars

\* A forced load() has returned at once on a temporary file.
C10_Witness ==
    /\ ev.op = "load.skip"
    /\ ev.arg = "force"
    /\ File(ev.file).size = -1

\* C11: a load() of a persisted file that was not loaded issues getUserData
\* at the file's path and sets isLoading; when the answer has status 200 the
\* file holds the fetched text as content and as originalContent, is not
\* loading, is loaded and is not modified.
C11_LoadFetches ==
    [][/\ (/\ ev'.op \in {"load", "load.skip"}
           /\ File(ev'.file).size # -1
           /\ File(ev'.file).content = null)
          => /\ ev'.op = "load"
             /\ ev'.call = [api |-> "getUserData", path |-> File(ev'.file).path]
       /\ ev'.op = "load.return"
          => /\ ev'.arg # null
             /\ FileAfter(ev'.file).content = ev'.arg
             /\ FileAfter(ev'.file).originalContent = ev'.arg
             /\ FileAfter(ev'.file).isLoading = FALSE
             /\ ev'.ret = ev'.file]_vars

\* The load of a persisted file that held no content has returned.
C11_Witness ==
    /\ ev.op = "load.return"
    /\ File(ev.file).size # -1
    /\ File(ev.file).content = ev.arg
    /\ File(ev.file).originalContent = ev.arg
    /\ ~File(ev.file).isLoading

\* C12: a load() that issues its call sets isLoading and nothing else; when
\* the answer has another status than 200 the load throws and assigns
\* nothing: content and originalContent stay, and isLoading is not reset.
C12_FailedLoadKeepsFlag ==
    [][/\ ev'.op = "load"
          => FileAfter(ev'.file) = [File(ev'.file) EXCEPT !.isLoading = TRUE]
       /\ ev'.op = "load.throw"
          => /\ FileAfter(ev'.file) = File(ev'.file)
             /\ ev'.ret = null
             /\ ev'.call = NoCall]_vars

\* A load has thrown on a file that is still loading and still holds no content.
C12_Witness ==
    /\ ev.op = "load.throw"
    /\ File(ev.file).isLoading
    /\ File(ev.file).content = null
    /\ File(ev.file).originalContent = null

\* C19: a file is loading only while a load of it is in flight.
C19_LoadingOnlyWhileInFlight ==
    \A r \in Refs :
       File(r).isLoading => \E i \in Flying({"load"}) : inflight[i].file = r

\* C13: the path of a file changes only in a rename: of a temporary file at
\* the call, with no remote call and the file still temporary, or of a
\* persisted file when its moveUserData(path, newPath) is answered with status
\* 200; the metadata then comes from the answer's body.  A rename answered
\* with another status throws and changes no field.
C13_RenameChangesPath ==
    [][/\ \A r \in DOMAIN files \cap DOMAIN files' :
             files'[r].path # files[r].path
             => \/ /\ ev'.op = "rename.local" /\ ev'.file = r
                   /\ files[r].size = -1 /\ files'[r].size = -1
                   /\ ev'.call = NoCall /\ inflight' = inflight
                \/ /\ ev'.op = "rename.moved" /\ ev'.file = r
                   /\ files[r].size # -1
                   /\ \E i \in DOMAIN inflight :
                         /\ inflight[i].op = "rename" /\ inflight[i].file = r
                         /\ inflight[i].newPath = files'[r].path
       /\ ev'.op = "rename.local"
          => FileAfter(ev'.file) = [File(ev'.file) EXCEPT !.path = ev'.arg]
       /\ (ev'.op \in {"rename", "rename.local"} /\ File(ev'.file).size # -1)
          => /\ ev'.op = "rename"
             /\ ev'.call = [api |-> "moveUserData", path |-> File(ev'.file).path,
                            dest |-> ev'.arg]
             /\ FileAfter(ev'.file) = File(ev'.file)
       /\ ev'.op = "rename.moved"
          => \E i \in DOMAIN inflight :
                /\ inflight[i].op = "rename" /\ inflight[i].file = ev'.file
                /\ FileAfter(ev'.file) = [File(ev'.file) EXCEPT !.path = inflight[i].newPath]
       /\ ev'.op = "rename.return"
          => \/ FileAfter(ev'.file) = File(ev'.file)
             \/ \E m \in Stamps, z \in Sizes :
                   FileAfter(ev'.file) = [File(ev'.file) EXCEPT !.lastModified = m, !.size = z]
       /\ ev'.op = "rename.throw"
          => FileAfter(ev'.file) = File(ev'.file) /\ ev'.ret = null]_vars

\* A persisted file has been moved: its path is the one its rename asked for
\* and the body of the answer is still awaited.
C13_Witness ==
    /\ ev.op = "rename.moved"
    /\ File(ev.file).size # -1
    /\ \E i \in Flying({"rename.json"}) : inflight[i].file = ev.file
    /\ File(ev.file).path = "d/b"

\* C17: a save that returns sets originalContent to the content that was
\* sent with its request.
C17_SavedIsWhatWasSent ==
    [][(ev'.op \in {"save.return", "saveAs.return"} /\ ev'.ret \in DOMAIN files')
       => \E i \in Flying({"save"}) :
             /\ inflight' = Without(i)
             /\ inflight[i].file = ev'.ret
             /\ FileAfter(ev'.ret).originalContent = inflight[i].sent]_vars

\* C14: delete() on a temporary file issues no call; on a persisted file it
\* issues one deleteUserData at the file's path and throws when the answer's
\* status is not 204.  No step of delete removes a file from the store or
\* changes a field of a file.
C14_DeleteChangesNoFile ==
    [][/\ ev'.op \in {"delete", "delete.skip", "delete.throw", "delete.return"}
          => UNCHANGED <<userFilesByPath, userDirs, files>>
       /\ (ev'.op \in {"delete", "delete.skip"} /\ File(ev'.file).size = -1)
          => ev'.op = "delete.skip" /\ ev'.call = NoCall /\ inflight' = inflight
       /\ (ev'.op \in {"delete", "delete.skip"} /\ File(ev'.file).size # -1)
          => /\ ev'.op = "delete"
             /\ ev'.call = [api |-> "deleteUserData", path |-> File(ev'.file).path]
             /\ Len(inflight') = Len(inflight) + 1
       /\ ev'.op \in {"delete.throw", "delete.return"}
          => /\ ev'.call = NoCall
             /\ Len(inflight') = Len(inflight) - 1
             /\ (ev'.op = "delete.throw") <=> (ev'.arg # "204")]_vars

\* The delete of a file of the store has been answered with status 204 and
\* has returned: the store still holds the file, and its content.
C14_Witness ==
    /\ ev.op = "delete.return"
    /\ ev.arg = "204"
    /\ ev.file \in DOMAIN userFilesByPath
    /\ userFilesByPath[ev.file].size # -1
    /\ userFilesByPath[ev.file].content # null

----------------------------------------------------------------------------
\* Properties of the store with the methods of its files, under StoreSpec.

\* C18: when a save of a stored file returns while syncFiles awaits its
\* listing, the listing's answer is applied all the same: the file gets the
\* listing's modified and size in place of those the save set, and is unloaded.
C18_SyncOverwritesSave ==
    [][ev'.op = "syncFiles.return"
       => \A k \in ev'.before.saved \cap DOMAIN userFilesByPath :
             \A e \in ev'.entries :
                (e.path = k /\ e.type = "file")
                => /\ userFilesByPath'[k].lastModified = e.modified
                   /\ userFilesByPath'[k].size = e.size
                   /\ userFilesByPath'[k].content = null
                   /\ userFilesByPath'[k].originalContent = null]_vars

\* syncFiles has applied a listing with an older time of modification to a
\* loaded file whose save returned after the listing was asked for.
C18_Witness ==
    /\ ev.op = "syncFiles.return"
    /\ \E k \in ev.before.saved \cap ev.before.loaded \cap ev.before.stale :
          /\ k \in DOMAIN userFilesByPath
          /\ userFilesByPath[k].content = null
          /\ \E e \in ev.entries :
                e.path = k /\ userFilesByPath[k].lastModified = e.modified

\* C20: every file of the store is held under the key equal to its path.
C20_KeyIsPath ==
    \A k \in DOMAIN userFilesByPath : userFilesByPath[k].path = k

----------------------------------------------------------------------------
\* Properties of the reconcile routines, under ReconcileSpec.

\* C15: whatever the exclusion predicate, a file the map holds and the
\* predicate excludes is held under the same key with the same fields after
\* syncEntities and after syncEntitiesV2, listed or not.
C15_ExcludedIsKept ==
    [][ev'.op \in {"syncEntities", "syncEntitiesV2"}
       => \A k \in DOMAIN userFilesByPath :
             Excluded(ev'.before.exclude, userFilesByPath[k])
             => k \in DOMAIN userFilesByPath' /\ userFilesByPath'[k] = userFilesByPath[k]]_vars

\* syncEntitiesV2, excluding the modified files, has kept a modified file the
\* listing lacks and one it lists, and has removed or updated another file.
C15_Witness ==
    /\ ev.op = "syncEntitiesV2"
    /\ ev.before.exclude = "modified"
    /\ \E k \in DOMAIN ev.before.collection :
          /\ isModified(ev.before.collection[k])
          /\ \A e \in ev.entries : e.path # k
          /\ k \in DOMAIN userFilesByPath
          /\ userFilesByPath[k] = ev.before.collection[k]
          /\ \E j \in DOMAIN ev.before.collection \ {k} :
                j \notin DOMAIN userFilesByPath \/ userFilesByPath[j] # ev.before.collection[j]

\* The typed listing that names the files of a flat listing of dir.
C16_FullPath(dir, path) == IF dir = "d" /\ path = "b" THEN "d/b" ELSE path

C16_SameFiles(dir, flat) ==
    {[x \in DOMAIN f \cup {"type"} |->
         CASE x = "type" -> "file"
           [] x = "path" -> C16_FullPath(dir, f.path)
           [] OTHER -> f[x]] : f \in flat}

\* C16: syncEntities over the flat listing of dir leaves the map that
\* syncEntitiesV2 leaves over the typed listing of the same files, from the
\* same map and with the same exclusion predicate and callbacks.
C16_FlatEqualsTyped ==
    [][ev'.op = "syncEntities"
       => userFilesByPath' =
             syncEntitiesV2(userFilesByPath, C16_SameFiles(ev'.arg, ev'.entries),
                            ev'.before.exclude)]_vars

\* syncEntities of the directory d has created the file it lists, by its
\* qualified path, and has removed a file it does not list.
C16_Witness ==
    /\ ev.op = "syncEntities"
    /\ ev.arg = "d"
    /\ ev.before.exclude = "loaded"
    /\ \E f \in ev.entries : f.path = "b"
    /\ "d/b" \in DOMAIN userFilesByPath \ DOMAIN ev.before.collection
    /\ "a" \in DOMAIN ev.before.collection \ DOMAIN userFilesByPath

====
